---- MODULE Spec2Model ----
(***************************************************************************)
(* FireNet/a.py: a regular-expression comment stripper for C# sources and  *)
(* the directory driver that applies it to every `.cs` file under a root.  *)
(*                                                                         *)
(* A text is a sequence of one-character strings.  Positions are 1-based   *)
(* (Python's are 0-based); a span is [start |-> first position,            *)
(* stop |-> position after the last one].                                  *)
(***************************************************************************)
EXTENDS Integers, Sequences, FiniteSets, TLC

VARIABLES
    code,       \* remove_csharp_comments: the argument of the first call
    cleaned,    \* the value returned for code
    again,      \* the value returned for cleaned
    upc,        \* "input" -> "once" -> "twice" ("idle" during a directory run)
    \* process_directory and the file system it works on
    tree,             \* the files under root_dir when the run starts: relative path -> content
    disk,             \* the files under root_dir now
    out,              \* the files under output_dir now: path -> content
    odirs,            \* the directories that exist under output_dir
    root_is_dir,      \* os.path.isdir(root_dir)
    output_dir,       \* the output root, or None
    todo,             \* files os.walk has not yet yielded
    file_count,
    processed_count,
    pc,               \* "start", "walk", "done", "notdir", "raised"
    printed,          \* the two numbers of the summary, <<>> before it is printed
    read_failed,      \* files whose read raised
    write_failed,     \* files whose write raised
    opened,           \* paths opened for writing (created or truncated)
    wrote             \* paths whose write completed

svars == <<code, cleaned, again, upc>>

dvars == <<tree, disk, out, odirs, root_is_dir, output_dir, todo, file_count,
           processed_count, pc, printed, read_failed, write_failed, opened, wrote>>

vars == <<svars, dvars>>

----------------------------------------------------------------------------
(* Bounds *)

MaxLen == 6
MaxPart == 1
MaxFiles == 2

----------------------------------------------------------------------------
(* Characters.  With re.DOTALL `.` matches every character; with            *)
(* re.MULTILINE `$` matches at the end of the text and before "\n" only.   *)

SLASH == "/"
STAR == "*"
LF == "\n"
\* "a" stands for every other character ("\r" included: to `.` and `$` it is one)
Alphabet == {SLASH, STAR, LF, "a"}

Texts == UNION {[1..n -> Alphabet] : n \in 0..MaxLen}

\* longer texts: two terminated block comments around a piece of code, a line
\* comment holding a block opener, a block comment holding a line marker
Short == UNION {[1..n -> {STAR, LF, "a"}] : n \in 0..MaxPart}

Block(b) == <<SLASH, STAR>> \o b \o <<STAR, SLASH>>

TwoBlocks == {Block(b1) \o m \o Block(b2) : b1 \in Short, m \in Short, b2 \in Short}

OpenerInLine ==
    {<<SLASH, SLASH>> \o x \o <<SLASH, STAR>> \o <<LF>> \o z \o <<STAR, SLASH>> \o w :
        x \in Short, z \in Short, w \in Short}

LineInBlock ==
    {Block(x \o <<SLASH, SLASH>> \o y) \o w \o <<LF>> : x \in Short, y \in Short, w \in Short}

Inputs == Texts \cup TwoBlocks \cup OpenerInLine \cup LineInBlock

----------------------------------------------------------------------------
(* The pattern  (//.*?$)|(/\*.*?\*/)  under MULTILINE | DOTALL *)

\* str.endswith
EndsWith(s, t) == Len(t) <= Len(s) /\ SubSeq(s, Len(s) - Len(t) + 1, Len(s)) = t

\* the two literal characters a, b stand at position i
LitAt(s, i, a, b) == i + 1 <= Len(s) /\ s[i] = a /\ s[i + 1] = b

\* variant: the comment takes its terminator with it (`//.*?\n`)
AtEolConsumed(s, p) == p > Len(s) \/ (s[p - 1] = LF)

\* `$`: position p (the next character to read) is the end of the text or "\n"
AtEol(s, p) == p > Len(s) \/ s[p] = LF

\* `.*?$` from p: the lazy body stops at the first position where `$` matches
RECURSIVE LazyToEol(_, _)
LazyToEol(s, p) == IF AtEol(s, p) THEN p ELSE LazyToEol(s, p + 1)

\* variant: an opener without a closer matches to the end of the text
RECURSIVE LazyToCloseOrEnd(_, _)
LazyToCloseOrEnd(s, p) ==
    IF p + 1 > Len(s) THEN Len(s) + 1
    ELSE IF LitAt(s, p, STAR, SLASH) THEN p + 2
    ELSE LazyToCloseOrEnd(s, p + 1)

\* `.*?\*/` from p: the lazy body stops at the first `*/`; 0 when there is none
RECURSIVE LazyToClose(_, _)
LazyToClose(s, p) ==
    IF p + 1 > Len(s) THEN 0
    ELSE IF LitAt(s, p, STAR, SLASH) THEN p + 2
    ELSE LazyToClose(s, p + 1)

\* variant: compiled without flags: `.` stops at "\n", `$` matches only at the
\* end of the text or before a final "\n"
RECURSIVE ToEndNoFlags(_, _)
ToEndNoFlags(s, p) ==
    IF p > Len(s) \/ (p = Len(s) /\ s[p] = LF) THEN p
    ELSE IF s[p] = LF THEN 0
    ELSE ToEndNoFlags(s, p + 1)

single_line_comment_pattern_noflags(s, i) ==
    IF LitAt(s, i, SLASH, SLASH) THEN ToEndNoFlags(s, i + 2) ELSE 0

\* single_line_comment_pattern at position i: the position after the match, or 0
single_line_comment_pattern(s, i) ==
    IF LitAt(s, i, SLASH, SLASH) THEN LazyToEol(s, i + 2) ELSE 0

\* variant: greedy body (`/\*.*\*/`): the match runs to the last `*/`
multi_line_comment_pattern_greedy(s, i) ==
    IF LitAt(s, i, SLASH, STAR) /\ \E q \in (i + 2)..Len(s) : LitAt(s, q, STAR, SLASH)
    THEN 2 + CHOOSE q \in (i + 2)..Len(s) :
                 LitAt(s, q, STAR, SLASH) /\ \A r \in (q + 1)..Len(s) : ~LitAt(s, r, STAR, SLASH)
    ELSE 0

\* multi_line_comment_pattern at position i: the position after the match, or 0
multi_line_comment_pattern(s, i) ==
    IF LitAt(s, i, SLASH, STAR) THEN LazyToClose(s, i + 2) ELSE 0

\* the compiled alternation at position i: first alternative first
pattern(s, i) ==
    IF single_line_comment_pattern(s, i) # 0
    THEN single_line_comment_pattern(s, i)
    ELSE multi_line_comment_pattern(s, i)

\* pattern.finditer: the non-overlapping matches, leftmost first, from i on
RECURSIVE Matches(_, _)
Matches(s, i) ==
    IF i > Len(s) THEN <<>>
    ELSE IF pattern(s, i) # 0
         THEN <<[start |-> i, stop |-> pattern(s, i)]>> \o Matches(s, pattern(s, i))
         ELSE Matches(s, i + 1)

\* variant: a comment is replaced by a blank
replacer_blank == <<" ">>

replacer == <<>>

\* pattern.sub(replacer, s) from position i on: matches replaced, the rest copied
RECURSIVE Sub(_, _)
Sub(s, i) ==
    IF i > Len(s) THEN <<>>
    ELSE IF pattern(s, i) # 0
         THEN replacer \o Sub(s, pattern(s, i))
         ELSE <<s[i]>> \o Sub(s, i + 1)

\* variant: two passes, line comments first and block comments in what is left
RECURSIVE SubLines(_, _)
SubLines(s, i) ==
    IF i > Len(s) THEN <<>>
    ELSE IF single_line_comment_pattern(s, i) # 0
         THEN SubLines(s, single_line_comment_pattern(s, i))
         ELSE <<s[i]>> \o SubLines(s, i + 1)

RECURSIVE SubBlocks(_, _)
SubBlocks(s, i) ==
    IF i > Len(s) THEN <<>>
    ELSE IF multi_line_comment_pattern(s, i) # 0
         THEN SubBlocks(s, multi_line_comment_pattern(s, i))
         ELSE <<s[i]>> \o SubBlocks(s, i + 1)

remove_csharp_comments_two_pass(s) == SubBlocks(SubLines(s, 1), 1)

remove_csharp_comments(s) == Sub(s, 1)

----------------------------------------------------------------------------
(* Paths are sequences of components; file names are strings *)

None == <<>>

ROOT == <<"R">>
OUT == <<"O">>

\* the characters of a file name
Chars(name) ==
    CASE name = "a.cs" -> <<"a", ".", "c", "s">>
      [] name = "b.cs" -> <<"b", ".", "c", "s">>
      [] name = "c.cs" -> <<"c", ".", "c", "s">>
      [] name = "docs" -> <<"d", "o", "c", "s">>

\* the files a tree may hold, as paths relative to the root
Candidates == {<<"a.cs">>, <<"docs">>, <<"sub", "b.cs">>, <<"sub", "c.cs">>}

Contents ==
    { <<"a", LF>>,
      <<"a", SLASH, SLASH, "a", LF>>,
      <<SLASH, STAR, "a", STAR, SLASH, "a">>,
      <<SLASH, SLASH, "a">>,
      <<SLASH, STAR, "a">> }

Trees == UNION {[fs -> Contents] : fs \in {c \in SUBSET Candidates : Cardinality(c) <= MaxFiles}}

join(a, b) == a \o b

relpath(path, start) == SubSeq(path, Len(start) + 1, Len(path))

dirname(path) == SubSeq(path, 1, Len(path) - 1)

basename(path) == path[Len(path)]

endswith(name, suffix) == EndsWith(Chars(name), suffix)

\* os.makedirs(d, exist_ok=True): d and every missing ancestor
makedirs(dirs, d) == dirs \cup {SubSeq(d, 1, k) : k \in 1..Len(d)}

\* os.walk, top-down: the files of a directory come before those of its
\* subdirectories; within a directory the order is the listing's
WalkNext(f) == f \in todo /\ \A g \in todo : Len(g) >= Len(f)

full_path(f) == join(ROOT, f)

\* variant: the mirrored file is put directly under the output root
out_path_flat(f) == join(output_dir, <<basename(full_path(f))>>)

out_path(f) == join(output_dir, relpath(full_path(f), ROOT))

\* variant: every file read is written
differs_always(cl, content) == TRUE

differs(cl, content) == cl # content

Put(fn, path, content) ==
    [q \in DOMAIN fn \cup {path} |-> IF q = path THEN content ELSE fn[q]]

\* what a write that raises after open(..., 'w') leaves behind
ProperPrefixes(t) == {SubSeq(t, 1, k) : k \in 0..(Len(t) - 1)}

----------------------------------------------------------------------------
(* process_directory *)

NoRun ==
    /\ tree = <<>> /\ disk = <<>> /\ out = <<>> /\ odirs = {}
    /\ root_is_dir = FALSE /\ output_dir = None /\ todo = {}
    /\ file_count = 0 /\ processed_count = 0
    /\ pc = "idle" /\ printed = <<>>
    /\ read_failed = {} /\ write_failed = {} /\ opened = {} /\ wrote = {}

Init ==
    /\ code = <<>> /\ cleaned = <<>> /\ again = <<>> /\ upc = "idle"
    /\ tree \in Trees
    /\ disk = tree
    /\ out = <<>>
    /\ output_dir \in {None, OUT}
    /\ odirs = IF output_dir = None THEN {} ELSE {output_dir}
    /\ root_is_dir \in BOOLEAN
    /\ todo = DOMAIN tree
    /\ file_count = 0
    /\ processed_count = 0
    /\ pc = "start"
    /\ printed = <<>>
    /\ read_failed = {} /\ write_failed = {} /\ opened = {} /\ wrote = {}

\* lines 20-26: the root is checked, the counters start at zero
Start ==
    /\ pc = "start"
    /\ pc' = IF root_is_dir THEN "walk" ELSE "notdir"
    /\ UNCHANGED <<svars, tree, disk, out, odirs, root_is_dir, output_dir, todo,
                   file_count, processed_count, printed, read_failed, write_failed, opened, wrote>>

\* line 30: a file whose name does not end with `.cs` is passed over
SkipOther(f) ==
    /\ pc = "walk" /\ WalkNext(f)
    /\ ~endswith(basename(f), <<".", "c", "s">>)
    /\ todo' = todo \ {f}
    /\ UNCHANGED <<svars, tree, disk, out, odirs, root_is_dir, output_dir,
                   file_count, processed_count, pc, printed, read_failed, write_failed, opened, wrote>>

\* lines 31-38: the file is counted, the read raises, `continue`
ReadFails(f) ==
    /\ pc = "walk" /\ WalkNext(f)
    /\ endswith(basename(f), <<".", "c", "s">>)
    /\ file_count' = file_count + 1
    /\ read_failed' = read_failed \cup {f}
    /\ todo' = todo \ {f}
    /\ UNCHANGED <<svars, tree, disk, out, odirs, root_is_dir, output_dir,
                   processed_count, pc, printed, write_failed, opened, wrote>>

\* lines 31-42, 60: the file is read and the stripper returns its content
Unchanged(f) ==
    /\ pc = "walk" /\ WalkNext(f)
    /\ endswith(basename(f), <<".", "c", "s">>)
    /\ ~differs(remove_csharp_comments(disk[f]), disk[f])
    /\ file_count' = file_count + 1
    /\ todo' = todo \ {f}
    /\ UNCHANGED <<svars, tree, disk, out, odirs, root_is_dir, output_dir,
                   processed_count, pc, printed, read_failed, write_failed, opened, wrote>>

\* lines 31-47: mirror mode, os.makedirs raises outside every try block
MakedirsRaises(f) ==
    /\ pc = "walk" /\ WalkNext(f)
    /\ endswith(basename(f), <<".", "c", "s">>)
    /\ differs(remove_csharp_comments(disk[f]), disk[f])
    /\ output_dir # None
    /\ dirname(out_path(f)) \notin odirs
    /\ file_count' = file_count + 1
    /\ processed_count' = processed_count + 1
    /\ pc' = "raised"
    /\ UNCHANGED <<svars, tree, disk, out, odirs, root_is_dir, output_dir, todo,
                   printed, read_failed, write_failed, opened, wrote>>

\* lines 31-52, 60: mirror mode, the cleaned text goes to the mirrored path;
\* open may raise, or the write may raise after the file was created
MirrorWrite(f) ==
    /\ pc = "walk" /\ WalkNext(f)
    /\ endswith(basename(f), <<".", "c", "s">>)
    /\ differs(remove_csharp_comments(disk[f]), disk[f])
    /\ output_dir # None
    /\ file_count' = file_count + 1
    /\ processed_count' = processed_count + 1
    /\ odirs' = makedirs(odirs, dirname(out_path(f)))
    /\ \/ /\ out' = Put(out, out_path(f), remove_csharp_comments(disk[f]))
          /\ opened' = opened \cup {out_path(f)}
          /\ wrote' = wrote \cup {out_path(f)}
          /\ UNCHANGED write_failed
       \/ /\ write_failed' = write_failed \cup {f}
          /\ UNCHANGED <<out, opened, wrote>>
       \/ \E part \in ProperPrefixes(remove_csharp_comments(disk[f])) :
              /\ out' = Put(out, out_path(f), part)
              /\ opened' = opened \cup {out_path(f)}
              /\ write_failed' = write_failed \cup {f}
              /\ UNCHANGED wrote
    /\ todo' = todo \ {f}
    /\ UNCHANGED <<svars, tree, disk, root_is_dir, output_dir, pc, printed, read_failed>>

\* lines 31-43, 53-60: in place, the cleaned text replaces the file's content
InPlaceWrite(f) ==
    /\ pc = "walk" /\ WalkNext(f)
    /\ endswith(basename(f), <<".", "c", "s">>)
    /\ differs(remove_csharp_comments(disk[f]), disk[f])
    /\ output_dir = None
    /\ file_count' = file_count + 1
    /\ processed_count' = processed_count + 1
    /\ \/ /\ disk' = Put(disk, f, remove_csharp_comments(disk[f]))
          /\ opened' = opened \cup {full_path(f)}
          /\ wrote' = wrote \cup {full_path(f)}
          /\ UNCHANGED write_failed
       \/ /\ write_failed' = write_failed \cup {f}
          /\ UNCHANGED <<disk, opened, wrote>>
       \/ \E part \in ProperPrefixes(remove_csharp_comments(disk[f])) :
              /\ disk' = Put(disk, f, part)
              /\ opened' = opened \cup {full_path(f)}
              /\ write_failed' = write_failed \cup {f}
              /\ UNCHANGED wrote
    /\ todo' = todo \ {f}
    /\ UNCHANGED <<svars, tree, out, odirs, root_is_dir, output_dir, pc, printed, read_failed>>

\* lines 62-63: the walk is over, the summary is printed
Summary ==
    /\ pc = "walk" /\ todo = {}
    /\ printed' = <<file_count, processed_count>>
    /\ pc' = "done"
    /\ UNCHANGED <<svars, tree, disk, out, odirs, root_is_dir, output_dir, todo,
                   file_count, processed_count, read_failed, write_failed, opened, wrote>>

Next ==
    \/ Start
    \/ \E f \in Candidates :
           \/ SkipOther(f)
           \/ ReadFails(f)
           \/ Unchanged(f)
           \/ MakedirsRaises(f)
           \/ MirrorWrite(f)
           \/ InPlaceWrite(f)
    \/ Summary

Spec == Init /\ [][Next]_vars

----------------------------------------------------------------------------
(* The stripper applied to a text, and to its own result *)

InitStripper ==
    /\ code \in Inputs
    /\ cleaned = <<>>
    /\ again = <<>>
    /\ upc = "input"
    /\ NoRun

Strip ==
    /\ upc = "input"
    /\ cleaned' = remove_csharp_comments(code)
    /\ upc' = "once"
    /\ UNCHANGED <<code, again, dvars>>

StripAgain ==
    /\ upc = "once"
    /\ again' = remove_csharp_comments(cleaned)
    /\ upc' = "twice"
    /\ UNCHANGED <<code, cleaned, dvars>>

NextStripper == Strip \/ StripAgain

SpecStripper == InitStripper /\ [][NextStripper]_vars

----------------------------------------------------------------------------
(* Vocabulary of the properties *)

HasLit(s, a, b) == \E i \in 1..Len(s) : LitAt(s, i, a, b)

HasMarker(s) == HasLit(s, SLASH, SLASH) \/ HasLit(s, SLASH, STAR)

From(s, i) == SubSeq(s, i, Len(s))

Spans(s) == {Matches(s, 1)[k] : k \in 1..Len(Matches(s, 1))}

IsLineSpan(s, m) == LitAt(s, m.start, SLASH, SLASH)

IsBlockSpan(s, m) == LitAt(s, m.start, SLASH, STAR)

\* position i lies inside a span that starts before it
InEarlierSpan(s, i) == \E m \in Spans(s) : m.start < i /\ i < m.stop

Stripped == upc \in {"once", "twice"}

\* o from position j on is s from position i on with spans deleted, each span
\* beginning with `//` or `/*`
RECURSIVE DeletesSpans(_, _, _, _)
DeletesSpans(s, i, o, j) ==
    IF i > Len(s) THEN j > Len(o)
    ELSE \/ j <= Len(o) /\ s[i] = o[j] /\ DeletesSpans(s, i + 1, o, j + 1)
         \/ /\ LitAt(s, i, SLASH, SLASH) \/ LitAt(s, i, SLASH, STAR)
            /\ \E e \in (i + 2)..(Len(s) + 1) : DeletesSpans(s, e, o, j)

\* a line-by-line reference: on each line everything from the first `//` on is
\* dropped, and every "\n" is copied
RECURSIVE CutLines(_, _, _)
CutLines(s, i, inComment) ==
    IF i > Len(s) THEN <<>>
    ELSE IF s[i] = LF THEN <<LF>> \o CutLines(s, i + 1, FALSE)
    ELSE IF inComment THEN CutLines(s, i + 1, TRUE)
    ELSE IF LitAt(s, i, SLASH, SLASH) THEN CutLines(s, i + 2, TRUE)
    ELSE <<s[i]>> \o CutLines(s, i + 1, FALSE)

\* the first position >= p that holds "\n", Len(s) + 1 when none does
FirstLF(s, p) ==
    IF \E q \in p..Len(s) : s[q] = LF
    THEN CHOOSE q \in p..Len(s) : s[q] = LF /\ \A r \in p..(q - 1) : s[r] # LF
    ELSE Len(s) + 1

\* a `*/` starts at some position >= p; FirstCloser is the first such position
HasCloser(s, p) == \E q \in p..Len(s) : LitAt(s, q, STAR, SLASH)

FirstCloser(s, p) ==
    CHOOSE q \in p..Len(s) :
        LitAt(s, q, STAR, SLASH) /\ \A r \in p..(q - 1) : ~LitAt(s, r, STAR, SLASH)

----------------------------------------------------------------------------
(* Properties of remove_csharp_comments *)

\* C1: stripping is idempotent: the stripper applied to its own result returns
\* that result unchanged.
C1_Idempotent == upc = "twice" => again = cleaned

C1_Witness == upc = "twice" /\ cleaned # code /\ cleaned # <<>> /\ again = cleaned

\* C2: the result is the input with contiguous, non-overlapping spans deleted,
\* each span beginning with `//` or `/*`: nothing is inserted, nothing is
\* reordered, and a text holding neither marker is returned unchanged.
C2_OnlyCommentSpansDeleted ==
    Stripped =>
        /\ DeletesSpans(code, 1, cleaned, 1)
        /\ ~HasMarker(code) => cleaned = code

C2_Witness ==
    /\ Stripped
    /\ Len(Matches(code, 1)) = 2
    /\ Len(cleaned) >= 2
    /\ DeletesSpans(code, 1, cleaned, 1)

\* C3: a line comment runs from `//` up to, not including, the next "\n" (or
\* the end of the text); so a text without `/*` keeps every "\n", and each of
\* its lines is cut at its first `//`.
C3_LineCommentKeepsTerminator ==
    Stripped =>
        /\ \A m \in Spans(code) :
               IsLineSpan(code, m) =>
                   /\ \A p \in m.start..(m.stop - 1) : code[p] # LF
                   /\ m.stop <= Len(code) => code[m.stop] = LF
        /\ ~HasLit(code, SLASH, STAR) =>
               /\ cleaned = CutLines(code, 1, FALSE)
               /\ SelectSeq(cleaned, LAMBDA c : c = LF) = SelectSeq(code, LAMBDA c : c = LF)

C3_Witness ==
    /\ Stripped
    /\ ~HasLit(code, SLASH, STAR)
    /\ \E m \in Spans(code) : m.stop <= Len(code) /\ m.stop > m.start + 2
    /\ \E k \in 1..Len(cleaned) : cleaned[k] = LF
    /\ cleaned # code

\* C4: a block comment runs from `/*` to the first `*/` that follows the
\* marker, inclusive, across "\n"; two terminated block comments around a
\* piece of code are two spans and the code between them is kept.
C4_BlockEndsAtFirstCloser ==
    Stripped =>
        /\ \A m \in Spans(code) :
               IsBlockSpan(code, m) =>
                   /\ LitAt(code, m.stop - 2, STAR, SLASH)
                   /\ m.stop - 2 >= m.start + 2
                   /\ \A q \in (m.start + 2)..(m.stop - 3) : ~LitAt(code, q, STAR, SLASH)
        /\ LitAt(code, 1, SLASH, STAR) /\ HasCloser(code, 3) =>
               \A o \in (FirstCloser(code, 3) + 2)..Len(code) :
                   /\ LitAt(code, o, SLASH, STAR)
                   /\ HasCloser(code, o + 2)
                   /\ FirstCloser(code, o + 2) = Len(code) - 1
                   /\ ~HasMarker(SubSeq(code, FirstCloser(code, 3) + 2, o - 1) \o <<SLASH>>)
                   => cleaned = SubSeq(code, FirstCloser(code, 3) + 2, o - 1)

C4_Witness ==
    /\ Stripped
    /\ Len(Matches(code, 1)) = 2
    /\ LitAt(code, 1, SLASH, STAR)
    /\ code[3] = LF
    /\ FirstCloser(code, 3) = 4
    /\ code[6] = "a"
    /\ LitAt(code, 7, SLASH, STAR)
    /\ FirstCloser(code, 9) = Len(code) - 1
    /\ cleaned = <<"a">>

\* C5 as stated: every character from an unterminated `/*` (one outside every
\* earlier span) to the end of the text is in the result unchanged.
C5_UnterminatedSuffixUnchanged ==
    Stripped =>
        \A i \in 1..Len(code) :
            /\ LitAt(code, i, SLASH, STAR)
            /\ ~InEarlierSpan(code, i)
            /\ ~HasCloser(code, i + 2)
            => EndsWith(cleaned, From(code, i))

\* C5 amended: no span starts at an unterminated `/*`; the marker is kept and
\* the text after it loses only its line comments; when no `//` follows the
\* marker, everything from the marker to the end of the text is unchanged.
C5_UnterminatedOpenerKept ==
    Stripped =>
        \A i \in 1..Len(code) :
            /\ LitAt(code, i, SLASH, STAR)
            /\ ~InEarlierSpan(code, i)
            /\ ~HasCloser(code, i + 2)
            => /\ cleaned = remove_csharp_comments(SubSeq(code, 1, i - 1))
                              \o <<SLASH, STAR>> \o CutLines(From(code, i + 2), 1, FALSE)
               /\ \A m \in Spans(code) : m.start >= i => IsLineSpan(code, m)
               /\ ~HasLit(From(code, i), SLASH, SLASH) => EndsWith(cleaned, From(code, i))

C5_Witness ==
    /\ Stripped
    /\ \E i \in 2..Len(code) :
           /\ LitAt(code, i, SLASH, STAR)
           /\ ~InEarlierSpan(code, i)
           /\ ~HasCloser(code, i + 2)
           /\ Len(code) >= i + 2
           /\ ~HasLit(From(code, i), SLASH, SLASH)
           /\ EndsWith(cleaned, From(code, i))
           /\ cleaned # code

\* C10: one scan from the left; the leftmost marker wins and scanning resumes
\* after its span: a `/*` inside a line comment opens nothing, a `//` inside a
\* terminated block comment starts nothing, and the text after the span is kept.
C10_LeftmostWinsNoRescan ==
    Stripped =>
        /\ \A i \in 1..Len(code) :
               ~HasMarker(SubSeq(code, 1, i)) =>
                   /\ LitAt(code, i, SLASH, SLASH) =>
                          cleaned = SubSeq(code, 1, i - 1)
                                      \o remove_csharp_comments(From(code, FirstLF(code, i + 2)))
                   /\ LitAt(code, i, SLASH, STAR) /\ HasCloser(code, i + 2) =>
                          cleaned = SubSeq(code, 1, i - 1)
                                      \o remove_csharp_comments(From(code, FirstCloser(code, i + 2) + 2))
        /\ \A m \in Spans(code) :
               /\ \A j \in (m.start + 1)..(m.stop - 1) : \A n \in Spans(code) : n.start # j
               /\ ~HasMarker(From(code, m.stop)) => EndsWith(cleaned, From(code, m.stop))

C10_Witness ==
    /\ Stripped
    /\ \E m \in Spans(code) :
           /\ IsLineSpan(code, m)
           /\ \E j \in (m.start + 2)..(m.stop - 2) : LitAt(code, j, SLASH, STAR)
           /\ HasCloser(code, m.stop)
           /\ ~HasMarker(From(code, m.stop))
           /\ EndsWith(cleaned, From(code, m.stop))

C10_WitnessBlock ==
    /\ Stripped
    /\ \E m \in Spans(code) :
           /\ IsBlockSpan(code, m)
           /\ \E j \in (m.start + 2)..(m.stop - 3) : LitAt(code, j, SLASH, SLASH)
           /\ m.stop < Len(code)
           /\ code[m.stop] # LF
           /\ cleaned = From(code, m.stop)

----------------------------------------------------------------------------
(* Properties of process_directory *)

IsCs(f) == endswith(basename(f), <<".", "c", "s">>)

CsFiles == {f \in DOMAIN tree : IsCs(f)}

Changes(f) == remove_csharp_comments(tree[f]) # tree[f]

Finished == pc \in {"done", "raised"}

\* C6: a failing read, directory creation or write concerns its own file only:
\* no exception leaves process_directory, every `.cs` file is visited and the
\* summary is printed.
C6_FailuresIsolated ==
    (root_is_dir /\ pc # "start") =>
        /\ pc # "raised"
        /\ pc = "done" => todo = {} /\ printed # <<>>

\* C7: a path is opened for writing only for a file whose stripped content
\* differs from the content read; a file without comments is written nowhere.
C7_WrittenOnlyIfChanged ==
    /\ \A q \in opened :
           \E f \in CsFiles :
               /\ Changes(f)
               /\ q = IF output_dir = None THEN join(ROOT, f) ELSE join(output_dir, f)
    /\ \A f \in DOMAIN tree :
           ~Changes(f) =>
               /\ disk[f] = tree[f]
               /\ join(OUT, f) \notin DOMAIN out
               /\ join(ROOT, f) \notin opened /\ join(OUT, f) \notin opened

C7_Witness ==
    /\ pc = "done"
    /\ output_dir = OUT
    /\ \E f \in CsFiles : ~Changes(f) /\ HasMarker(tree[f]) /\ join(OUT, f) \notin DOMAIN out
    /\ \E g \in CsFiles : Changes(g) /\ join(OUT, g) \in wrote

\* C8: the summary reports the number of `.cs` files under the root and the
\* number of files whose cleaned content was written.
C8_SummaryAccurate ==
    pc = "done" => printed = <<Cardinality(CsFiles), Cardinality(wrote)>>

\* C9 as stated: in mirror mode the paths written are exactly the mirrored
\* paths of the `.cs` files whose content changes, and nothing under the root
\* is touched; in place, every changed file is overwritten at its own path.
C9_MirrorExact ==
    pc = "done" =>
        /\ output_dir # None =>
               /\ wrote = {join(output_dir, f) : f \in {g \in CsFiles : Changes(g)}}
               /\ disk = tree
        /\ output_dir = None =>
               \A f \in CsFiles : Changes(f) => disk[f] = remove_csharp_comments(tree[f])

\* the changed `.cs` files the run has visited and whose read and write succeeded
Delivered ==
    {f \in CsFiles \ todo : Changes(f) /\ f \notin read_failed /\ f \notin write_failed}

\* C9 amended: in mirror mode the paths written are exactly the mirrored paths
\* (relative path kept, directories created) of the changed `.cs` files that
\* the run visited and whose read and write succeeded, each holding the
\* cleaned text, and nothing under the root is touched; in place, exactly
\* those files are overwritten at their own paths.
C9_MirrorOfDelivered ==
    /\ output_dir # None =>
           /\ wrote = {join(output_dir, f) : f \in Delivered}
           /\ \A f \in Delivered :
                  /\ out[join(output_dir, f)] = remove_csharp_comments(tree[f])
                  /\ dirname(join(output_dir, f)) \in odirs
           /\ \A q \in opened : SubSeq(q, 1, Len(output_dir)) = output_dir
           /\ opened = DOMAIN out
           /\ disk = tree
    /\ output_dir = None =>
           /\ wrote = {join(ROOT, f) : f \in Delivered}
           /\ \A f \in Delivered : disk[f] = remove_csharp_comments(tree[f])
           /\ \A f \in DOMAIN tree : join(ROOT, f) \notin opened => disk[f] = tree[f]
           /\ out = <<>>
    /\ (pc = "done" /\ read_failed = {} /\ write_failed = {}) =>
           Delivered = {f \in CsFiles : Changes(f)}

C9_Witness ==
    /\ pc = "done"
    /\ output_dir = OUT
    /\ wrote = {<<"O", "a.cs">>, <<"O", "sub", "b.cs">>}
    /\ <<"O", "sub">> \in odirs
    /\ disk = tree

====
